---- MODULE Spec2Model ----
(***************************************************************************)
(* tiny-task: Task lifecycle (prepare -> exec -> post -> updateSharedData), *)
(* the Flow successor-graph walker, and the ParallelTask batch executor.    *)
(*                                                                          *)
(* Task objects are named by the strings of Tasks.  Shared-context objects  *)
(* live in a heap indexed by SharedIds, so that "the same object" is an     *)
(* identity of references and not an equality of contents.                  *)
(***************************************************************************)
EXTENDS Integers, Sequences, FiniteSets, TLC

\* ------------------------------------------------------------------ bounds
MaxSteps == 3       \* task runs one execute call may perform in the model
MaxConnects == 3    \* connect calls made while wiring the graph
MaxItems == 3       \* length of the array a ParallelTask's prepare yields
MaxConc == 2        \* largest configured maxConcurrency
MaxExecs == 2       \* execute calls made on one flow
MaxChunks == 4      \* iterations of the batch loop followed in one run

\* ------------------------------------------------------------ value spaces
Tasks == {"A", "B", "C", "E"}
NoTask == "undefined"          \* JS undefined / null task reference
\* what `{}["constructor"]` evaluates to: a truthy value that is not a task
ObjectCtor == "Object"
SharedIds == {"s1", "s2"}
NoShared == "none"
StepsKey == "steps"            \* the key the hooks of the test tasks write
ProcessedKey == "processed"    \* the field the README's ProcessingTask sets
Keys == Tasks \cup {StepsKey, ProcessedKey}   \* a task's result key is its name
NewObject == "prepared"        \* the object an overriding prepare builds
Undef == [tag |-> "undefined"]
Val(v) == [tag |-> "value", v |-> v]
Bool(b) == [tag |-> "boolean", b |-> b]
Shapes == {"valid", "invalid"} \* the input a caller hands to execute

ConnectLabels == {"default", "error"}
\* labels a post hook may produce; "constructor" is an ordinary string that is
\* also a property every object literal inherits from Object.prototype
PostLabels == {"default", "error", "end", "constructor"}
InheritedLabels == {"constructor"}
NoLabel == "none"

VARIABLES
  successors,   \* Task.successors, per task: label -> task (NoTask: no own entry)
  kind,         \* class of each task object: "task" | "parallel"
  style,        \* hooks of each task: "default" | "custom" | "effectful" | "routed"
  build,        \* which copy of the sources is run: "packages" | "legacy"
  logic,        \* exec of each task: "opaque" | "validate" | "process"
  input,        \* the caller's data in each shared object: "valid" | "invalid"
  worker,       \* execItem of the parallel tasks: "test" | "fn"
  hung,         \* indices whose execItem call never settles
  timeout,      \* ParallelTaskConfig.timeout (0: not configured)
  maxConcurrency, \* ParallelTaskConfig.maxConcurrency of the parallel tasks
  awaiting,     \* processInParallel is inside a loop iteration, at await Promise.all
  nChunks,      \* iterations of the batch loop entered in this run
  startTask,    \* Flow.startTask
  currentTask,  \* Flow.currentTask
  nConnects,    \* connect calls made so far
  returnedTask, \* what the last connect call returned
  chainArg,     \* the tasks the flow was built from by chainTasks
  lastCursorOp, \* the last of reset / setCurrentTask called: "none" | "reset" | "set"
  nExec,        \* execute calls made so far
  prevVisited,  \* the tasks the previous execute call ran
  prevShared,   \* the shared object of the previous execute call
  epc2,         \* a second, overlapping execute call: "idle" | "loop" | "returned" | "raised"
  sharedArg2,   \* the second call's parameter `shared`
  start2,       \* the flow's cursor task when the second call began
  cur2,         \* the second call's local `current`
  visited2,     \* tasks the second call ran, in order
  labels2,      \* labels the second call's runs returned, in order
  heap,         \* contents of the shared-context objects
  epc,          \* Flow.execute: "idle" | "loop" | "awaitRun" | "returned" | "raised"
  sharedArg,    \* execute's parameter `shared` (a reference)
  cur,          \* execute's local `current`
  returned,     \* the reference execute returned
  visited,      \* tasks whose run was invoked by this execute call, in order
  labels,       \* the label each of those runs returned, in order
  rpc,          \* Task.run: "none" | "prepare" | "exec" | "batch" | "post" | "merge" | "done" | "raised"
  runTask,      \* the task whose run is in progress
  result,       \* run's local `result`
  nextNode,     \* run's local `nextNode` / `nextTask`
  ret,          \* the label the last run returned
  calls,        \* hooks invoked by the run in progress, in order
  raisedIn,     \* the hook that raised in this run, or "none"
  prepared,     \* run's local `prepared` (a reference)
  execArg,      \* the argument exec was called with
  heapAtRun,    \* contents of shared when the run in progress began
  heapAtPhase,  \* contents of shared when the current phase of the run began
  hookWrites,   \* hooks of this run that wrote to shared, in order
  items,        \* processInParallel: the prepared array
  idx,          \* processInParallel: the loop variable i
  batch,        \* indices of the current chunk
  inflight,     \* indices whose execItem call has started and not settled
  batchResults, \* settled mapper outcomes of the current chunk, by index
  results,      \* processInParallel: results
  errors,       \* processInParallel: errors
  maxInflight,  \* largest number of execItem calls ever in flight together
  started,      \* indices whose execItem was invoked, in order
  settled       \* indices whose execItem call settled, in completion order

flowVars == <<successors, startTask, currentTask, nConnects>>
execVars == <<epc, sharedArg, cur, returned, visited, labels>>
runVars == <<rpc, runTask, result, nextNode, ret, calls, raisedIn>>
argVars == <<prepared, execArg>>
histVars == <<heapAtRun, heapAtPhase, hookWrites>>
cfgVars == <<kind, maxConcurrency, style, build, logic, input, worker, hung, timeout>>
call2Vars == <<epc2, sharedArg2, start2, cur2, visited2, labels2>>
sessVars == <<chainArg, lastCursorOp, nExec, prevVisited, prevShared, call2Vars>>
parVars == <<items, idx, batch, inflight, batchResults, results, errors, maxInflight, started,
            settled, awaiting, nChunks>>
vars == <<flowVars, returnedTask, sessVars, execVars, runVars, argVars, histVars, parVars,
          cfgVars, heap>>

\* --------------------------------------------------------------- Task, Flow

\* `successors: Record<string, ITask> = {}`
emptySuccessors == [l \in ConnectLabels |-> NoTask]

\* faulty variant: a label without an own entry resolves to a truthy non-task value
lookupNeverMissing(succ, label) ==
  IF label \in DOMAIN succ /\ succ[label] # NoTask THEN succ[label] ELSE ObjectCtor

\* faulty variant: the label is ignored and the "default" edge is followed
lookupIgnoreLabel(succ, label) == succ["default"]

\* `current.successors[nextTaskName]`: own entry first, then the properties an
\* object literal inherits from Object.prototype
lookup(succ, label) ==
  IF label \in DOMAIN succ /\ succ[label] # NoTask THEN succ[label]
  ELSE IF label \in InheritedLabels THEN ObjectCtor
  ELSE NoTask

\* connect(next, action = 'default'): the label when the caller gives none
actionOrDefault(action) == IF action = NoLabel THEN "default" ELSE action

\* faulty variant: connect returns the receiver
connectReturnThis(t, next) == t

\* return next
connectReturn(t, next) == next

\* Task.connect: this.successors[action] = next; return next
connect(t, next, action) ==
  /\ epc = "idle"
  /\ nConnects < MaxConnects
  /\ successors' = [successors EXCEPT ![t][actionOrDefault(action)] = next]
  /\ nConnects' = nConnects + 1
  /\ returnedTask' = connectReturn(t, next)
  /\ UNCHANGED <<startTask, currentTask, execVars, runVars, argVars, histVars, parVars, cfgVars,
                 sessVars, heap>>

\* faulty variant: execute always begins at the start task
executeStartAtStart(c, s) == s

\* Flow.execute, entry: let current = this.currentTask || this.startTask
executeStart(c, s) == IF c # NoTask THEN c ELSE s

\* the body of execute up to the loop head
executeEnter(sh) ==
  /\ epc' = "loop"
  /\ sharedArg' = sh
  /\ cur' = executeStart(currentTask, startTask)
  /\ visited' = <<>>
  /\ labels' = <<>>
  /\ returned' = NoShared
  /\ nExec' = nExec + 1
  /\ returnedTask' = NoTask
  /\ UNCHANGED <<flowVars, chainArg, lastCursorOp, call2Vars, runVars, argVars, histVars, parVars,
                 cfgVars, heap>>

\* the first execute call on the flow
execute(sh) ==
  /\ epc = "idle"
  /\ executeEnter(sh)
  /\ UNCHANGED <<prevVisited, prevShared>>

\* a later execute call on the same flow, once the one before has returned
executeAgain(sh) ==
  /\ epc = "returned"
  /\ nExec < MaxExecs
  /\ executeEnter(sh)
  /\ prevVisited' = visited
  /\ prevShared' = sharedArg

\* faulty variant: reset leaves the cursor where it is
resetTargetStay(start, current) == current

\* reset(): this.currentTask = this.startTask
resetTarget(start, current) == start

reset ==
  /\ epc \in {"idle", "returned"}
  /\ currentTask' = resetTarget(startTask, currentTask)
  /\ lastCursorOp' = "reset"
  /\ UNCHANGED <<successors, startTask, nConnects, returnedTask, chainArg, nExec, prevVisited,
                 prevShared, call2Vars, execVars, runVars, argVars, histVars, parVars, cfgVars,
                 heap>>

\* setCurrentTask(task): this.currentTask = task
setCurrentTask(task) ==
  /\ epc \in {"idle", "returned"}
  /\ currentTask' = task
  /\ lastCursorOp' = "set"
  /\ UNCHANGED <<successors, startTask, nConnects, returnedTask, chainArg, nExec, prevVisited,
                 prevShared, call2Vars, execVars, runVars, argVars, histVars, parVars, cfgVars,
                 heap>>

\* faulty variant: the loop stops at a task it has already run
whileCurrentUnvisited(c) == c # NoTask /\ \A i \in 1..Len(visited): visited[i] # c

\* while (current)
whileCurrent(c) == c # NoTask

\* while (current) { ... await current.run(shared) : the call itself
executeRun ==
  /\ epc = "loop"
  /\ IF ~whileCurrent(cur)
       THEN /\ epc' = "returned"
            /\ returned' = sharedArg
            /\ UNCHANGED <<visited, runVars, argVars, histVars>>
       ELSE IF cur \notin Tasks
         THEN \* current.run is not a function: TypeError out of execute
              /\ epc' = "raised"
              /\ UNCHANGED <<returned, visited, runVars, argVars, histVars>>
         ELSE /\ Len(visited) < MaxSteps
              /\ epc' = "awaitRun"
              /\ visited' = Append(visited, cur)
              /\ rpc' = "prepare"
              /\ runTask' = cur
              /\ result' = Undef
              /\ nextNode' = NoLabel
              /\ ret' = NoLabel
              /\ calls' = <<>>
              /\ raisedIn' = "none"
              /\ prepared' = NoShared
              /\ execArg' = NoShared
              /\ heapAtRun' = heap[sharedArg]
              /\ heapAtPhase' = heap[sharedArg]
              /\ hookWrites' = <<>>
              /\ UNCHANGED returned
  /\ UNCHANGED <<flowVars, returnedTask, sharedArg, cur, labels, parVars, cfgVars, sessVars,
                 heap>>

\* faulty variant: no catch block, the error propagates out of run
runNoCatch == [rpc |-> "raised", ret |-> NoLabel]

\* the catch block of Task.run: log, return 'error'
runCatch == [rpc |-> "done", ret |-> "error"]

\* a hook of the run in progress raised
raise(hook) ==
  /\ rpc' = runCatch.rpc
  /\ ret' = runCatch.ret
  /\ raisedIn' = hook
  /\ calls' = Append(calls, hook)

\* what a hook of the test tasks leaves in shared: shared.steps.push(name)
StepsBy(hook) == [tag |-> "steps", by |-> hook]

\* whether a hook of task t writes to shared before it returns or raises
hookEffects(t) == IF style[t] = "effectful" THEN {TRUE, FALSE} ELSE {FALSE}

\* faulty variant: what a hook wrote is undone
afterHookUndone(w, hook) == heap[sharedArg]

\* the contents of shared after a hook that writes (w) or does not
afterHook(w, hook) ==
  IF w THEN [heap[sharedArg] EXCEPT ![StepsKey] = StepsBy(hook)] ELSE heap[sharedArg]

\* the default prepare, post and updateSharedData do not raise; exec is always
\* the subclass's
canRaise(t, hook) ==
  IF hook = "exec" THEN logic[t] = "opaque" ELSE style[t] \in {"custom", "effectful"}

\* default prepare: return shared as-is; an overriding prepare may build a new object
defaultPrepare(sh) == sh
prepareOutputs(t) ==
  IF style[t] = "effectful" THEN {defaultPrepare(sharedArg), NewObject}
  ELSE {defaultPrepare(sharedArg)}

\* Step 1: const prepared = await this.prepare(shared)
prepare ==
  /\ rpc = "prepare" /\ kind[runTask] = "task"
  /\ \E w \in hookEffects(runTask):
       /\ heap' = [heap EXCEPT ![sharedArg] = afterHook(w, "prepare")]
       /\ hookWrites' = IF w THEN Append(hookWrites, "prepare") ELSE hookWrites
       /\ \/ /\ rpc' = "exec"
             /\ \E p \in prepareOutputs(runTask): prepared' = p
             /\ calls' = Append(calls, "prepare")
             /\ heapAtPhase' = heap'[sharedArg]
             /\ UNCHANGED <<ret, raisedIn>>
          \/ /\ canRaise(runTask, "prepare")
             /\ raise("prepare")
             /\ UNCHANGED <<prepared, heapAtPhase>>
  /\ UNCHANGED <<flowVars, returnedTask, execVars, runTask, result, nextNode, execArg, heapAtRun,
                 parVars, cfgVars, sessVars>>

\* Step 2: const result = await this.exec(prepared); the value identifies the run
execValue == Val(Len(visited))

\* exec of the example tasks: ValidationTask checks its input, ProcessingTask
\* returns { ...data, processed: true }; any other exec returns an opaque value
Copy(shape) == [tag |-> "copy", of |-> shape, processed |-> TRUE]
execOutcome(t, shape) ==
  IF logic[t] = "validate" THEN Bool(shape = "valid")
  ELSE IF logic[t] = "process" THEN Copy(shape)
  ELSE execValue

\* faulty variant: exec is handed shared instead of prepare's output
execInputShared(sh, prep) == sh

\* the argument of this.exec(prepared)
execInput(sh, prep) == prep

\* faulty variant: the result is stored as soon as exec returns
storeAfterExecEager(sh, name, r) == [sh EXCEPT ![name] = r]

\* between exec and post run writes nothing: result is only a local
storeAfterExec(sh, name, r) == sh

\* exec reaches shared only through its argument
execEffects(t, arg) == IF arg = sharedArg THEN hookEffects(t) ELSE {FALSE}

exec ==
  /\ rpc = "exec" /\ kind[runTask] = "task"
  /\ execArg' = execInput(sharedArg, prepared)
  /\ \E w \in execEffects(runTask, execArg'):
       /\ hookWrites' = IF w THEN Append(hookWrites, "exec") ELSE hookWrites
       /\ \/ /\ rpc' = "post"
             /\ result' = execOutcome(runTask, input[sharedArg])
             /\ heap' = [heap EXCEPT ![sharedArg] =
                           storeAfterExec(afterHook(w, "exec"), runTask, result')]
             /\ calls' = Append(calls, "exec")
             /\ heapAtPhase' = heap'[sharedArg]
             /\ UNCHANGED <<ret, raisedIn>>
          \/ /\ canRaise(runTask, "exec")
             /\ raise("exec")
             /\ heap' = [heap EXCEPT ![sharedArg] = afterHook(w, "exec")]
             /\ UNCHANGED <<result, heapAtPhase>>
  /\ UNCHANGED <<flowVars, returnedTask, execVars, runTask, nextNode, prepared, heapAtRun, parVars,
                 cfgVars, sessVars>>

\* default post: return 'default'
defaultPost == "default"

\* faulty variant: the routing post always continues
routedPostAlways(r) == "default"

\* post of the test suite's ValidationTask: return result ? 'default' : 'error'
routedPost(r) == IF r = Bool(TRUE) THEN "default" ELSE "error"

\* faulty variant: the ParallelTask default post routes on the error count
parDefaultPostOnErrors(r) == IF r.totalErrors > 0 THEN "error" ELSE "default"

\* ParallelTask's default post: return 'default'
parDefaultPost(r) == "default"

\* the labels the post hook of task t may return
postLabels(t) ==
  IF style[t] = "default"
    THEN IF kind[t] = "parallel" THEN {parDefaultPost(result)} ELSE {defaultPost}
  ELSE IF style[t] = "routed" THEN {routedPost(result)}
  ELSE PostLabels

\* Step 3: const nextNode = await this.post(shared, prepared, result)
post ==
  /\ rpc = "post"
  /\ \E w \in hookEffects(runTask):
       /\ heap' = [heap EXCEPT ![sharedArg] = afterHook(w, "post")]
       /\ hookWrites' = IF w THEN Append(hookWrites, "post") ELSE hookWrites
       /\ \/ \E l \in postLabels(runTask):
               /\ rpc' = "merge"
               /\ nextNode' = l
               /\ calls' = Append(calls, "post")
               /\ heapAtPhase' = heap'[sharedArg]
               /\ UNCHANGED <<ret, raisedIn>>
          \/ /\ canRaise(runTask, "post")
             /\ raise("post")
             /\ UNCHANGED <<nextNode, heapAtPhase>>
  /\ UNCHANGED <<flowVars, returnedTask, execVars, runTask, result, argVars, heapAtRun, parVars,
                 cfgVars, sessVars>>

\* faulty variant: the result is stored under a fixed key
mergeFixedKey(sh, name, r) == [sh EXCEPT ![StepsKey] = r]

\* faulty variant: nothing is merged
mergeNothing(sh, name, r) == sh

\* default updateSharedData: shared[this.name] = result
defaultMerge(sh, name, r) == [sh EXCEPT ![name] = r]

\* this.updateSharedData(shared, result); return nextNode
updateSharedData ==
  /\ rpc = "merge"
  /\ \/ /\ heap' = [heap EXCEPT ![sharedArg] = defaultMerge(@, runTask, result)]
        /\ rpc' = "done"
        /\ ret' = nextNode
        /\ calls' = Append(calls, "updateSharedData")
        /\ UNCHANGED <<raisedIn, hookWrites>>
     \/ \* an overriding merge raises, after writing to shared or before
        /\ canRaise(runTask, "updateSharedData")
        /\ raise("updateSharedData")
        /\ \E w \in hookEffects(runTask):
             /\ heap' = [heap EXCEPT ![sharedArg] = afterHook(w, "updateSharedData")]
             /\ hookWrites' = IF w THEN Append(hookWrites, "updateSharedData") ELSE hookWrites
  /\ UNCHANGED <<flowVars, returnedTask, execVars, runTask, result, nextNode, argVars, heapAtRun,
                 heapAtPhase, parVars, cfgVars, sessVars>>

\* faulty variant: only 'end' ends the walk
isTerminalEndOnly(label) == label = "end"

\* a label that ends the walk: nextTaskName === 'end' || nextTaskName === 'error'
isTerminal(label) == label = "end" \/ label = "error"

\* faulty variant: the loop does not wait for run to settle
runHasSettledNoAwait == rpc # "none"

\* const nextTaskName = await current.run(shared): the loop goes on only
\* once the promise run returned has settled
runHasSettled == rpc \in {"done", "raised"}

\* faulty variant: the cursor local stays on the task just run
advanceStay(current, nextTask) == current

\* current = nextTask
advance(current, nextTask) == nextTask

\* the rest of the loop body, once run has settled
executeStep ==
  /\ epc = "awaitRun"
  /\ runHasSettled
  /\ rpc' = "none"
  /\ IF rpc = "raised"
       THEN /\ epc' = "raised"
            /\ UNCHANGED <<cur, returned, labels>>
       ELSE /\ labels' = Append(labels, ret)
            /\ IF isTerminal(ret)
                 THEN /\ epc' = "returned"
                      /\ returned' = sharedArg
                      /\ UNCHANGED cur
                 ELSE LET nextTask == lookup(successors[cur], ret) IN
                      IF nextTask = NoTask
                        THEN /\ epc' = "returned"
                             /\ returned' = sharedArg
                             /\ UNCHANGED cur
                        ELSE /\ epc' = "loop"
                             /\ cur' = advance(cur, nextTask)
                             /\ UNCHANGED returned
  /\ UNCHANGED <<flowVars, returnedTask, sharedArg, visited, runTask, result, nextNode, ret, calls,
                 raisedIn, argVars, histVars, parVars, cfgVars, sessVars, heap>>

\* faulty variant: the calls share one cursor, each reads the other's position
loopCursorShared(own, other) == other

\* let current: the cursor of the loop is a local of the call
loopCursor(own, other) == own

\* a second execute call on the same Flow, which may begin while another call
\* is in progress: let current = this.currentTask || this.startTask
execute2(sh) ==
  /\ epc2 = "idle"
  /\ epc2' = "loop"
  /\ sharedArg2' = sh
  /\ start2' = executeStart(currentTask, startTask)
  /\ cur2' = executeStart(currentTask, startTask)
  /\ visited2' = <<>>
  /\ labels2' = <<>>
  /\ UNCHANGED <<flowVars, returnedTask, chainArg, lastCursorOp, nExec, prevVisited, prevShared,
                 execVars, runVars, argVars, histVars, parVars, cfgVars, heap>>

\* one iteration of the second call's loop: the run of its current task (a
\* crash in a hook gives "error" and no merge) and the choice of the next one
executeLoop2 ==
  /\ epc2 = "loop"
  /\ LET c == loopCursor(cur2, cur) IN
       IF ~whileCurrent(c)
         THEN /\ epc2' = "returned"
              /\ UNCHANGED <<cur2, visited2, labels2, heap>>
       ELSE IF c \notin Tasks
         THEN /\ epc2' = "raised"
              /\ UNCHANGED <<cur2, visited2, labels2, heap>>
         ELSE /\ Len(visited2) < MaxSteps
              /\ \E l \in postLabels(c), crashed \in BOOLEAN:
                   LET label == IF crashed THEN runCatch.ret ELSE l
                       nextTask == lookup(successors[c], label)
                   IN /\ crashed => canRaise(c, "post")
                      /\ visited2' = Append(visited2, c)
                      /\ labels2' = Append(labels2, label)
                      /\ heap' = IF crashed THEN heap
                                 ELSE [heap EXCEPT ![sharedArg2] =
                                         defaultMerge(@, c, Val(Len(visited2) + 1))]
                      /\ IF isTerminal(label) \/ nextTask = NoTask
                           THEN epc2' = "returned" /\ cur2' = c
                           ELSE epc2' = "loop" /\ cur2' = advance(c, nextTask)
  /\ UNCHANGED <<flowVars, returnedTask, chainArg, lastCursorOp, nExec, prevVisited, prevShared,
                 sharedArg2, start2, execVars, runVars, argVars, histVars, parVars, cfgVars>>

\* faulty variant: only the first two tasks are connected
chainConnectFirstOnly(succ, tasks, i) ==
  IF Len(tasks) < 2 THEN succ ELSE [succ EXCEPT ![tasks[1]]["default"] = tasks[2]]

\* tasks[i].connect(tasks[i + 1], 'default') for i = 0 .. tasks.length - 2
RECURSIVE chainConnect(_, _, _)
chainConnect(succ, tasks, i) ==
  IF i >= Len(tasks) THEN succ
  ELSE chainConnect([succ EXCEPT ![tasks[i]]["default"] = tasks[i + 1]], tasks, i + 1)

\* chainTasks(...tasks): connect each task to the next, return new Flow(tasks[0])
chainTasks(tasks) ==
  /\ epc = "idle"
  /\ chainArg = <<>>
  /\ successors' = chainConnect(successors, tasks, 1)
  /\ nConnects' = nConnects + Len(tasks) - 1
  /\ startTask' = tasks[1]
  /\ currentTask' = tasks[1]
  /\ chainArg' = tasks
  /\ returnedTask' = NoTask
  /\ lastCursorOp' = "none"   \* a new Flow: its cursor has not been moved
  /\ UNCHANGED <<nExec, prevVisited, prevShared, call2Vars, execVars, runVars, argVars,
                 histVars, parVars, cfgVars, heap>>

\* ------------------------------------------------------------- ParallelTask

ItemVals == {10, 20, -5, -7}
PreparedArrays == UNION {[1..n -> ItemVals] : n \in 0..MaxItems}
Processed(item) == [tag |-> "processed", id |-> item]
Err(item) == [tag |-> "error", of |-> item, wrapped |-> FALSE]
Str(item) == [tag |-> "string", of |-> item]
Null == [tag |-> "null"]

\* the per-item worker (a user hook): as in the test suite it raises on a
\* negative value and otherwise returns { id, processed: true }; what it raises
\* is an Error for one failing item and a value that is no Error for the other
\* with worker "fn" it is the function the createParallelTask test passes,
\* item => item.value > 0, which never raises
execItemRaises(item) == worker = "test" /\ item < 0
execItem(item) ==
  IF worker = "fn" THEN Bool(item > 0)
  ELSE IF ~execItemRaises(item) THEN Processed(item)
  ELSE IF item = -5 THEN Err(item) ELSE Str(item)

\* error instanceof Error ? error : new Error(String(error))
toError(e) == IF e.tag = "error" THEN e ELSE [tag |-> "error", of |-> e.of, wrapped |-> TRUE]

\* JS arrays are 0-based: a[i] of the sequence a
at(a, i) == a[i + 1]

\* faulty variant: the slice has no upper end
batchIndicesUncapped(i, m, n) == {k \in 0..(n - 1) : i <= k}

\* items.slice(i, i + maxConcurrency), as the set of global indices it covers
batchIndices(i, m, n) == {k \in 0..(n - 1) : i <= k /\ k < i + m}

\* faulty variant: no try/catch around execItem, the mapper's promise rejects
mapperNoCatch(k, item) ==
  IF execItemRaises(item)
    THEN [index |-> k, result |-> Null, error |-> execItem(item), data |-> Val(item), rejected |-> TRUE]
    ELSE [index |-> k, result |-> execItem(item), error |-> Null, data |-> Undef, rejected |-> FALSE]

\* the async mapper of batch.map: try { await execItem } catch { error record }
mapper(k, item) ==
  IF execItemRaises(item)
    THEN [index |-> k, result |-> Null, error |-> toError(execItem(item)), data |-> Val(item),
          rejected |-> FALSE]
    ELSE [index |-> k, result |-> execItem(item), error |-> Null, data |-> Undef,
          rejected |-> FALSE]

\* the two copies of the executor: packages/parallel/src/parallel.ts pads
\* results with undefined, parallel-task.ts with null
Builds == {"packages", "legacy"}
placeholder == IF build = "packages" THEN Undef ELSE Null

\* faulty variant: the padding loop runs one slot too far
RECURSIVE padOneMore(_, _)
padOneMore(res, index) ==
  IF Len(res) <= index + 1 THEN padOneMore(Append(res, placeholder), index) ELSE res

\* while (results.length <= index) results.push(undefined)
RECURSIVE pad(_, _)
pad(res, index) == IF Len(res) <= index THEN pad(Append(res, placeholder), index) ELSE res

\* faulty variant: results.push(result), whatever the index
recordSuccessPush(res, index, value) == Append(res, value)

\* ...; results[index] = result
recordSuccess(res, index, value) == [pad(res, index) EXCEPT ![index + 1] = value]

\* faulty variant: a failure is pushed twice
recordErrorTwice(errs, r) ==
  Append(Append(errs, [index |-> r.index, error |-> r.error, data |-> r.data]),
         [index |-> r.index, error |-> r.error, data |-> r.data])

\* errors.push({ index, error, data })
recordError(errs, r) == Append(errs, [index |-> r.index, error |-> r.error, data |-> r.data])

\* faulty variant: a falsy result counts as a failure
isFailureFalsy(r) == r.error # Null \/ r.result = Bool(FALSE)

\* if (error): the mapper's record carries an Error
isFailure(r) == r.error # Null

\* faulty variant: the chunk's outcomes are recorded from the last to the first
RECURSIVE forEachBackwards(_, _, _, _)
forEachBackwards(k, last, br, acc) ==
  IF k > last THEN acc
  ELSE LET r == br[last] IN
       forEachBackwards(k, last - 1, br,
               IF isFailure(r)
                 THEN [acc EXCEPT !.errors = recordError(acc.errors, r)]
                 ELSE [acc EXCEPT !.results = recordSuccess(acc.results, r.index, r.result)])

\* batchResults.forEach(...), over the chunk's outcomes in input order
RECURSIVE forEach(_, _, _, _)
forEach(k, last, br, acc) ==
  IF k > last THEN acc
  ELSE LET r == br[k] IN
       forEach(k + 1, last, br,
               IF isFailure(r)
                 THEN [acc EXCEPT !.errors = recordError(acc.errors, r)]
                 ELSE [acc EXCEPT !.results = recordSuccess(acc.results, r.index, r.result)])

\* faulty variant: totalProcessed counts the results array
makeResultCountResults(its, res, errs) ==
  [tag |-> "parallel", results |-> res, errors |-> errs,
   totalProcessed |-> Len(res), totalErrors |-> Len(errs)]

\* the object processInParallel returns (processingTime, a wall-clock
\* difference, carries no information the model tracks)
makeResult(its, res, errs) ==
  [tag |-> "parallel", results |-> res, errors |-> errs,
   totalProcessed |-> Len(its), totalErrors |-> Len(errs)]

\* faulty variant: no special case for an empty array
isEmptyPreparedNever(arr) == FALSE

\* !Array.isArray(prepared) || prepared.length === 0 (prepare yields arrays here)
isEmptyPrepared(arr) == Len(arr) = 0

\* faulty variant: the loop advances one item at a time (a sliding window)
nextIndexByOne(i, m) == i + 1

\* faulty variant: the loop index advances by two chunks
nextIndexTwice(i, m) == i + 2 * m

\* faulty variant: a maxConcurrency below one is treated as one
nextIndexAtLeastOne(i, m) == i + (IF m < 1 THEN 1 ELSE m)

\* the loop's increment: i += maxConcurrency
nextIndex(i, m) == i + m

\* faulty variant: the loop stops one item early
loopDoneEarly(i, n) == i + 1 >= n

\* the loop's exit test: !(i < items.length)
loopDone(i, n) == ~(i < n)

\* ParallelTask.run, Step 1: prepare, and the early return on an empty array
parPrepare ==
  /\ rpc = "prepare" /\ kind[runTask] = "parallel"
  /\ \/ \E arr \in PreparedArrays:
          /\ calls' = Append(calls, "prepare")
          /\ items' = arr
          /\ idx' = 0 /\ batch' = {} /\ inflight' = {} /\ batchResults' = <<>>
          /\ results' = <<>> /\ errors' = <<>> /\ maxInflight' = 0 /\ started' = <<>>
          /\ settled' = <<>> /\ awaiting' = FALSE /\ nChunks' = 0
          /\ IF isEmptyPrepared(arr)
               THEN rpc' = "done" /\ ret' = "default"
               ELSE rpc' = "batch" /\ UNCHANGED ret
          /\ UNCHANGED raisedIn
     \/ raise("prepare") /\ UNCHANGED parVars
  /\ UNCHANGED <<flowVars, returnedTask, execVars, runTask, result, nextNode, argVars, histVars,
                 cfgVars, sessVars, heap>>

\* ascending enumeration of a set of indices
RECURSIVE ascending(_)
ascending(S) ==
  IF S = {} THEN <<>>
  ELSE LET lo == CHOOSE x \in S : \A y \in S : x <= y IN <<lo>> \o ascending(S \ {lo})

\* loop head with i < items.length: slice the chunk and start every mapper;
\* each mapper calls execItem synchronously, so the whole chunk is in flight
launchBatch ==
  /\ rpc = "batch" /\ ~awaiting /\ ~loopDone(idx, Len(items))
  /\ nChunks < MaxChunks
  /\ awaiting' = TRUE /\ nChunks' = nChunks + 1
  /\ LET b == batchIndices(idx, maxConcurrency, Len(items)) IN
       /\ batch' = b
       /\ inflight' = b
       /\ started' = started \o ascending(b)
       /\ maxInflight' = IF Cardinality(b) > maxInflight THEN Cardinality(b) ELSE maxInflight
  /\ batchResults' = <<>>
  /\ UNCHANGED <<flowVars, returnedTask, execVars, runVars, argVars, histVars, items, idx, results,
                 errors,
                 settled, cfgVars, sessVars, heap>>

\* faulty variant: the configured timeout ends a call that never settles
canSettleTimeout(k) == k \notin hung \/ timeout > 0

\* an execItem call settles unless it never does; config.timeout is read nowhere
canSettle(k) == k \notin hung

\* one execItem call settles (in any order) and its mapper returns
settle(k) ==
  /\ rpc = "batch" /\ k \in inflight
  /\ canSettle(k)
  /\ inflight' = inflight \ {k}
  /\ settled' = Append(settled, k)
  /\ batchResults' = [j \in (DOMAIN batchResults) \cup {k} |->
                        IF j = k THEN mapper(k, at(items, k)) ELSE batchResults[j]]
  /\ UNCHANGED <<flowVars, returnedTask, execVars, runVars, argVars, histVars, items, idx, batch,
                 results,
                 errors, maxInflight, started, awaiting, nChunks, cfgVars, sessVars, heap>>

\* await Promise.all(batchPromises) resolves; record the chunk; i += maxConcurrency
recordBatch ==
  /\ rpc = "batch" /\ awaiting /\ inflight = {}
  /\ awaiting' = FALSE
  /\ IF \E k \in batch : batchResults[k].rejected
       THEN \* Promise.all rejects: processInParallel raises into run's catch
            /\ raise("exec")
            /\ UNCHANGED <<results, errors, idx>>
       ELSE LET lo == idx
                hi == idx + Cardinality(batch) - 1
                acc == forEach(lo, hi, batchResults, [results |-> results, errors |-> errors])
            IN /\ results' = acc.results
               /\ errors' = acc.errors
               /\ idx' = nextIndex(idx, maxConcurrency)
               /\ UNCHANGED <<rpc, ret, raisedIn, calls>>
  /\ batch' = {}
  /\ batchResults' = <<>>
  /\ UNCHANGED <<flowVars, returnedTask, execVars, runTask, result, nextNode, argVars, histVars,
                 items,
                 inflight, maxInflight, started, settled, nChunks, cfgVars, sessVars, heap>>

\* faulty variant: ParallelTask.run goes from the batch straight to the merge
afterProcessInParallelMerge == "merge"

\* ParallelTask.run: the step after processInParallel is the post hook
afterProcessInParallel == "post"

\* loop exit: return { results, errors, totalProcessed, totalErrors, ... }
processInParallelReturn ==
  /\ rpc = "batch" /\ ~awaiting /\ loopDone(idx, Len(items))
  /\ result' = makeResult(items, results, errors)
  /\ rpc' = afterProcessInParallel
  /\ calls' = Append(calls, "exec")
  /\ UNCHANGED <<flowVars, returnedTask, execVars, runTask, nextNode, ret, raisedIn, argVars,
                 histVars,
                 parVars, cfgVars, sessVars, heap>>

\* ---------------------------------------------------------------- Init, Spec

parInit ==
  /\ items = <<>> /\ idx = 0 /\ batch = {} /\ inflight = {}
  /\ batchResults = <<>> /\ results = <<>> /\ errors = <<>>
  /\ maxInflight = 0 /\ started = <<>> /\ settled = <<>>
  /\ awaiting = FALSE /\ nChunks = 0

runInit ==
  /\ rpc = "none" /\ runTask = NoTask /\ result = Undef /\ nextNode = NoLabel
  /\ ret = NoLabel /\ calls = <<>> /\ raisedIn = "none"
  /\ prepared = NoShared /\ execArg = NoShared
  /\ heapAtRun = [k \in Keys |-> Undef] /\ heapAtPhase = [k \in Keys |-> Undef]
  /\ hookWrites = <<>>

\* no call made on the flow yet
sessInit ==
  /\ returnedTask = NoTask /\ chainArg = <<>> /\ lastCursorOp = "none" /\ nExec = 0
  /\ prevVisited = <<>> /\ prevShared = NoShared
  /\ epc2 = "idle" /\ sharedArg2 = NoShared /\ start2 = NoTask /\ cur2 = NoTask
  /\ visited2 = <<>> /\ labels2 = <<>>

\* opaque execs, the test suite's worker, every call settles, no timeout
plainInit ==
  /\ logic = [t \in Tasks |-> "opaque"]
  /\ input = [s \in SharedIds |-> "valid"]
  /\ worker = "test" /\ hung = {} /\ timeout = 0

execInit ==
  /\ epc = "idle" /\ sharedArg = NoShared /\ cur = NoTask /\ returned = NoShared
  /\ visited = <<>> /\ labels = <<>>

\* tasks constructed, `new Flow(A)` built, fresh shared objects
Init ==
  /\ successors = [t \in Tasks |-> emptySuccessors]
  /\ kind = [t \in Tasks |-> "task"]
  /\ style = [t \in Tasks |-> "custom"]
  /\ build = "packages"
  /\ maxConcurrency = 1
  /\ startTask = "A"
  /\ currentTask = "A"
  /\ nConnects = 0
  /\ heap = [s \in SharedIds |-> [k \in Keys |-> Undef]]
  /\ execInit /\ runInit /\ parInit /\ sessInit /\ plainInit

Next ==
  \/ \E t \in Tasks, n \in Tasks, a \in ConnectLabels \cup {NoLabel}: connect(t, n, a)
  \/ \E sh \in SharedIds: execute(sh)
  \/ executeRun
  \/ prepare
  \/ exec
  \/ post
  \/ updateSharedData
  \/ executeStep

Spec == Init /\ [][Next]_vars

\* a ParallelTask run through a one-task Flow, as the test suite drives it
InitPar ==
  /\ successors = [t \in Tasks |-> emptySuccessors]
  /\ kind = [t \in Tasks |-> IF t = "A" THEN "parallel" ELSE "task"]
  /\ style \in {[t \in Tasks |-> IF t = "A" THEN st ELSE "custom"] : st \in {"custom", "default"}}
  /\ build \in Builds
  /\ maxConcurrency \in 1..MaxConc
  /\ startTask = "A"
  /\ currentTask = "A"
  /\ nConnects = 0
  /\ heap = [s \in SharedIds |-> [k \in Keys |-> Undef]]
  /\ execInit /\ runInit /\ parInit /\ sessInit /\ plainInit

NextPar ==
  \/ \E sh \in SharedIds: execute(sh)
  \/ executeRun
  \/ parPrepare
  \/ launchBatch
  \/ \E k \in 0..MaxItems: settle(k)
  \/ recordBatch
  \/ processInParallelReturn
  \/ post
  \/ updateSharedData
  \/ executeStep

SpecPar == InitPar /\ [][NextPar]_vars

\* what a caller's shared object may hold before the run
InitialValue == Val(0)
InitialShared ==
  {[k \in Keys |-> IF k \in K THEN InitialValue ELSE Undef] : K \in SUBSET {"A", "B", StepsKey}}

\* one Task.run of the base class through a one-task Flow: the task keeps
\* the default hooks, or overrides them, or overrides them with hooks that
\* write to shared
InitRun ==
  /\ successors = [t \in Tasks |-> emptySuccessors]
  /\ kind = [t \in Tasks |-> "task"]
  /\ style \in {[t \in Tasks |-> st] : st \in {"default", "custom", "effectful"}}
  /\ build = "packages"
  /\ maxConcurrency = 1
  /\ startTask = "A"
  /\ currentTask = "A"
  /\ nConnects = 0
  /\ heap \in [SharedIds -> InitialShared]
  /\ execInit /\ runInit /\ parInit /\ sessInit /\ plainInit

NextRun ==
  \/ \E sh \in SharedIds: execute(sh)
  \/ executeRun
  \/ prepare
  \/ exec
  \/ post
  \/ updateSharedData
  \/ executeStep

SpecRun == InitRun /\ [][NextRun]_vars

\* a ParallelTask A and a base task B chained into one Flow
ChainSeqs == {<<"A", "B">>, <<"B", "A">>, <<"A">>}

NextFlowPar ==
  \/ \E tasks \in ChainSeqs: chainTasks(tasks)
  \/ \E sh \in SharedIds: execute(sh)
  \/ executeRun
  \/ prepare
  \/ exec
  \/ parPrepare
  \/ launchBatch
  \/ \E k \in 0..MaxItems: settle(k)
  \/ recordBatch
  \/ processInParallelReturn
  \/ post
  \/ updateSharedData
  \/ executeStep

SpecFlowPar == InitPar /\ [][NextFlowPar]_vars

\* the timeout the repository's example configures
RobustTimeout == 5000

\* a ParallelTask some of whose execItem calls may never settle, with or
\* without a configured timeout
InitHang ==
  /\ successors = [t \in Tasks |-> emptySuccessors]
  /\ kind = [t \in Tasks |-> IF t = "A" THEN "parallel" ELSE "task"]
  /\ style = [t \in Tasks |-> "custom"]
  /\ build = "packages"
  /\ maxConcurrency \in 1..MaxConc
  /\ startTask = "A"
  /\ currentTask = "A"
  /\ nConnects = 0
  /\ heap = [s \in SharedIds |-> [k \in Keys |-> Undef]]
  /\ logic = [t \in Tasks |-> "opaque"]
  /\ input = [s \in SharedIds |-> "valid"]
  /\ worker = "test"
  /\ hung \in {{}, {0}, {1}, {MaxItems - 1}}
  /\ timeout \in {0, RobustTimeout}
  /\ execInit /\ runInit /\ parInit /\ sessInit

SpecHang == InitHang /\ [][NextPar]_vars

\* the task createParallelTask builds from two functions: default post and
\* merge, execItem = item => item.value > 0
InitFn ==
  /\ successors = [t \in Tasks |-> emptySuccessors]
  /\ kind = [t \in Tasks |-> IF t = "A" THEN "parallel" ELSE "task"]
  /\ style = [t \in Tasks |-> "default"]
  /\ build \in Builds
  /\ maxConcurrency \in 1..MaxConc
  /\ startTask = "A"
  /\ currentTask = "A"
  /\ nConnects = 0
  /\ heap = [s \in SharedIds |-> [k \in Keys |-> Undef]]
  /\ logic = [t \in Tasks |-> "opaque"]
  /\ input = [s \in SharedIds |-> "valid"]
  /\ worker = "fn" /\ hung = {} /\ timeout = 0
  /\ execInit /\ runInit /\ parInit /\ sessInit

SpecFn == InitFn /\ [][NextPar]_vars

\* flows over the example tasks: A validates (its post either routes on the
\* result, as in the test suite, or is the default one, as in the README), the
\* others process; each with the default prepare and merge
SessTasks == {"A", "B", "C"}
SessChains == {<<"A", "B">>, <<"A", "B", "C">>, <<"A", "B", "A">>, <<"B", "A">>, <<"A">>}
PreWired ==
  {[t \in Tasks |-> emptySuccessors],
   [t \in Tasks |-> IF t = "C" THEN [emptySuccessors EXCEPT !["default"] = "A"]
                    ELSE IF t = "B" THEN [emptySuccessors EXCEPT !["error"] = "C"]
                    ELSE emptySuccessors]}

InitSession ==
  /\ successors \in PreWired
  /\ kind = [t \in Tasks |-> "task"]
  /\ style \in {[t \in Tasks |-> IF t = "A" THEN st ELSE "default"] : st \in {"routed", "default"}}
  /\ build = "packages"
  /\ maxConcurrency = 1
  /\ startTask = "A"
  /\ currentTask = "A"
  /\ nConnects = 0
  /\ heap = [s \in SharedIds |-> [k \in Keys |-> Undef]]
  /\ logic = [t \in Tasks |-> IF t = "A" THEN "validate" ELSE "process"]
  /\ input \in [SharedIds -> Shapes]
  /\ worker = "test" /\ hung = {} /\ timeout = 0
  /\ execInit /\ runInit /\ parInit /\ sessInit

NextSession ==
  \/ \E tasks \in SessChains: chainTasks(tasks)
  \/ \E t \in SessTasks: setCurrentTask(t)
  \/ reset
  \/ \E sh \in SharedIds: execute(sh)
  \/ \E sh \in SharedIds: executeAgain(sh)
  \/ executeRun
  \/ prepare
  \/ exec
  \/ post
  \/ updateSharedData
  \/ executeStep

SpecSession == InitSession /\ [][NextSession]_vars

\* ------------------------------------------------------------------ helpers

Range(f) == {f[x] : x \in DOMAIN f}

\* JS `label in successors`: an own entry or an inherited property
inSuccessors(succ, label) ==
  (label \in DOMAIN succ /\ succ[label] # NoTask) \/ label \in InheritedLabels

\* indices of the prepared array whose execItem call raises / returns
Failing == {k \in 0..(Len(items) - 1) : execItemRaises(at(items, k))}
Succeeding == {k \in 0..(Len(items) - 1) : ~execItemRaises(at(items, k))}

\* the largest element of a non-empty set of indices
Max(S) == CHOOSE x \in S : \A y \in S : x >= y

\* the upper end (exclusive) of the chunk that starts at index i
chunkEnd(i) == IF i + maxConcurrency < Len(items) THEN i + maxConcurrency ELSE Len(items)

\* the consumer of the test suite: result.results.filter(r => r !== null)
keepNonNull(res) == SelectSeq(res, LAMBDA r : r # Null)

\* the chain A -> B -> C under "default", C being the end of the chain
ChainABC ==
  /\ successors["A"]["default"] = "B"
  /\ successors["B"]["default"] = "C"
  /\ successors["C"]["default"] = NoTask

\* ------------------------------------------------------------------- claims

\* C1: when prepare, exec or post raises during run, run itself does not raise:
\* it returns "error", and updateSharedData is not invoked in that run.
TheoremC1 ==
  /\ rpc # "raised"
  /\ (raisedIn \in {"prepare", "exec", "post"}) =>
       /\ rpc = "done" \/ rpc = "none"
       /\ ret = "error"
       /\ "updateSharedData" \notin Range(calls)

WitnessC1 == rpc = "done" /\ raisedIn = "post" /\ calls = <<"prepare", "exec", "post">>

ClaimC3 ==
  (/\ ChainABC /\ successors["A"]["error"] = "E"
   /\ epc = "returned"
   /\ Len(labels) > 0 /\ visited[1] = "A" /\ labels[1] = "error"
   /\ raisedIn = "none")
  => visited = <<"A", "E">>

TheoremC5 ==
  /\ Len(visited) > 0 => visited[1] = executeStart(currentTask, startTask)
  /\ \A i \in 1..(Len(visited) - 1):
       /\ labels[i] \in DOMAIN successors[visited[i]]
       /\ successors[visited[i]][labels[i]] = visited[i + 1]
  /\ (/\ ChainABC /\ epc = "returned" /\ visited # <<>> /\ visited[1] = "A"
      /\ \A i \in 1..Len(labels): labels[i] = "default")
     => visited = <<"A", "B", "C">>

WitnessC5 ==
  /\ epc = "returned" /\ visited = <<"A", "B", "C">>
  /\ labels = <<"default", "default", "default">>

\* C6: execute never raises, whatever the hooks do, and what it returns is the
\* shared object it was given.
ClaimC6 ==
  /\ epc # "raised"
  /\ epc = "returned" => returned = sharedArg

\* C7: in every batch, for every completion order of the workers of a chunk,
\* an item that succeeded has the value its execItem returned at its own index
\* of results.
TheoremC7 ==
  /\ \A k \in Succeeding:
       (k < idx) => (k < Len(results) /\ at(results, k) = execItem(at(items, k)))
  /\ result.tag = "parallel" =>
       \A k \in Succeeding:
         k < Len(result.results) /\ at(result.results, k) = execItem(at(items, k))

\* two successes of one chunk settled in the reverse of their input order, in
\* a batch that also holds a failure
WitnessC7 ==
  /\ result.tag = "parallel" /\ Failing # {}
  /\ \E p, q \in 1..Len(settled):
       /\ p < q /\ settled[p] > settled[q]
       /\ {settled[p], settled[q]} \subseteq Succeeding
       /\ at(result.results, settled[p]) = execItem(at(items, settled[p]))

\* C8: an item whose execItem raises stops no other item: every item is
\* executed, every non-failing item is a success in results, errors holds a
\* record {index, error, item} for exactly the failing indices, and run returns
\* post's label, not "error".
TheoremC8 ==
  /\ raisedIn # "exec"
  /\ result.tag = "parallel" =>
       /\ started = [j \in 1..Len(items) |-> j - 1]
       /\ \A k \in Succeeding:
            k < Len(result.results) /\ at(result.results, k) = execItem(at(items, k))
       /\ Range(result.errors) =
            {[index |-> k, error |-> toError(execItem(at(items, k))), data |-> Val(at(items, k))] :
               k \in Failing}
       /\ Len(result.errors) = Cardinality(Failing)
  /\ (rpc = "done" /\ raisedIn = "none" /\ Len(items) > 0) => ret = nextNode

WitnessC8 ==
  /\ rpc = "done" /\ ret = "default" /\ maxConcurrency = 2
  /\ items = <<10, -5, 20>>
  /\ Len(result.errors) = 1 /\ result.errors[1].index = 1
  /\ heap[sharedArg]["A"] = result

\* C9: for a non-empty input and any pattern of successes and failures,
\* totalProcessed is the input length and totalErrors is the length of errors,
\* which is the number of items whose execItem raised.
TheoremC9 ==
  result.tag = "parallel" =>
    /\ Len(items) > 0
    /\ result.totalProcessed = Len(items)
    /\ result.totalErrors = Len(result.errors)
    /\ result.totalErrors = Cardinality(Failing)

WitnessC9 ==
  /\ result.tag = "parallel" /\ Len(items) = MaxItems
  /\ result.totalErrors = 2 /\ Len(result.results) = 1

\* C10: at every moment of a batch, at most maxConcurrency execItem calls have
\* started and not yet settled.
TheoremC10 ==
  /\ Cardinality(inflight) <= maxConcurrency
  /\ maxInflight <= maxConcurrency

WitnessC10 ==
  /\ maxConcurrency = 2 /\ Cardinality(inflight) = 2
  /\ Len(items) > idx + maxConcurrency

\* C11: the input is processed in contiguous chunks of maxConcurrency items
\* (the last one possibly shorter), one chunk after another: items start in
\* input order, the chunk in progress is items[idx .. idx + maxConcurrency),
\* and every item started outside the chunk in progress has already settled,
\* so no item of a later chunk starts while an item of an earlier one is
\* pending, even when others of that chunk have settled.
TheoremC11 ==
  rpc = "batch" =>
    /\ kind[runTask] = "parallel"
    /\ idx % maxConcurrency = 0
    /\ batch # {} => batch = {k \in 0..(Len(items) - 1) : idx <= k /\ k < chunkEnd(idx)}
    /\ inflight \subseteq batch
    /\ started = [j \in 1..(IF batch # {} THEN chunkEnd(idx) ELSE chunkEnd(idx - maxConcurrency))
                    |-> j - 1]
    /\ \A k \in Range(started) \ batch: k \in Range(settled)
    /\ \A k \in 0..(Len(items) - 1): k >= chunkEnd(idx) => k \notin Range(started)

\* one item of the first chunk has settled, the other is pending, and the
\* item of the next chunk has not started
WitnessC11 ==
  /\ rpc = "batch" /\ maxConcurrency = 2 /\ Len(items) = 3
  /\ batch = {0, 1} /\ inflight = {0} /\ settled = <<1>>
  /\ started = <<0, 1>>

\* C12: when a ParallelTask's prepare yields an empty sequence, run returns
\* "default" having called neither execItem nor post nor updateSharedData, and
\* shared is as it was when run was called.
TheoremC12 ==
  (/\ runTask \in Tasks /\ kind[runTask] = "parallel"
   /\ calls # <<>> /\ raisedIn = "none" /\ Len(items) = 0) =>
    /\ rpc \in {"done", "none"}
    /\ ret = "default"
    /\ calls = <<"prepare">>
    /\ started = <<>>
    /\ result = Undef
    /\ heap[sharedArg] = heapAtRun

WitnessC12 ==
  /\ epc = "returned" /\ kind[runTask] = "parallel" /\ raisedIn = "none"
  /\ items = <<>> /\ calls = <<"prepare">> /\ labels = <<"default">>

\* C13: the length of results is one plus the largest index of a successful
\* item, 0 when no item succeeded; every failed index below that length holds
\* the empty placeholder; so results is shorter than the input when the input
\* ends with failures.
TheoremC13 ==
  result.tag = "parallel" =>
    /\ Len(result.results) = IF Succeeding = {} THEN 0 ELSE 1 + Max(Succeeding)
    /\ \A k \in Failing: k < Len(result.results) => at(result.results, k) = placeholder
    /\ (Len(items) - 1 \in Failing) => Len(result.results) < Len(items)

\* a failure below the last success and a failing tail
WitnessC13 ==
  /\ result.tag = "parallel" /\ items = <<-5, 10, -7>>
  /\ Len(result.results) = 2 /\ at(result.results, 0) = placeholder

\* C14: the placeholder at a failed index that a later success follows is not
\* null, so the consumer that keeps the entries r !== null keeps every
\* position up to the last success: 3 entries for the input [ok, fail, ok].
ClaimC14 ==
  result.tag = "parallel" =>
    /\ \A k \in Failing: k < Len(result.results) => at(result.results, k) # Null
    /\ (items = <<10, -5, 20>>) => Len(keepNonNull(result.results)) = 3

\* C15: when Task.run returns "error" because prepare, exec or post raised,
\* shared is exactly as it was before the failing phase began.
ClaimC15 ==
  (rpc = "done" /\ raisedIn \in {"prepare", "exec", "post"}) => heap[sharedArg] = heapAtPhase

\* C15, amended: run itself writes nothing in a run that fails in prepare,
\* exec or post (the merge is skipped, the task's key is as it was when run was
\* called), and nothing is rolled back: shared is as it was before the failing
\* phase began except for what the failing hook itself wrote before it raised.
TheoremC15 ==
  (rpc = "done" /\ raisedIn \in {"prepare", "exec", "post"}) =>
    /\ ret = "error"
    /\ "updateSharedData" \notin Range(calls)
    /\ heap[sharedArg][runTask] = heapAtRun[runTask]
    /\ \/ heap[sharedArg] = heapAtPhase
       \/ /\ hookWrites # <<>> /\ hookWrites[Len(hookWrites)] = raisedIn
          /\ heap[sharedArg] = [heapAtPhase EXCEPT ![StepsKey] = StepsBy(raisedIn)]

\* post wrote to shared and then raised: the write is still there
WitnessC15 ==
  /\ rpc = "done" /\ raisedIn = "post" /\ ret = "error"
  /\ heap[sharedArg][StepsKey] = StepsBy("post")
  /\ heapAtPhase[StepsKey] # StepsBy("post")
  /\ heap[sharedArg]["A"] = heapAtRun["A"]

\* C16: in a Task.run in which no hook raises, prepare, exec, post and
\* updateSharedData are invoked once each in that order; while post runs shared
\* does not hold this run's result; exec is handed prepare's output; and run
\* returns the label post produced, whether or not it is in successors.
TheoremC16 ==
  (runTask \in Tasks /\ kind[runTask] = "task" /\ raisedIn = "none") =>
    /\ \E n \in 0..4: calls = SubSeq(<<"prepare", "exec", "post", "updateSharedData">>, 1, n)
    /\ rpc \in {"done", "none"} => calls = <<"prepare", "exec", "post", "updateSharedData">>
    /\ rpc \in {"post", "merge"} =>
         /\ result = execValue
         /\ heap[sharedArg][runTask] # result
         /\ heap[sharedArg][runTask] = heapAtRun[runTask]
    /\ rpc \in {"post", "merge", "done"} => execArg = prepared
    /\ rpc = "done" => (ret = nextNode /\ heap[sharedArg][runTask] = result)

\* prepare built a new object, exec got it, and the label returned is no key
\* of successors
WitnessC16 ==
  /\ rpc = "done" /\ raisedIn = "none"
  /\ calls = <<"prepare", "exec", "post", "updateSharedData">>
  /\ prepared = NewObject /\ execArg = NewObject
  /\ ret = "end" /\ ~inSuccessors(successors[runTask], ret)

TheoremC18 ==
  /\ rpc \in {"prepare", "exec", "batch", "post", "merge", "done", "raised"} =>
       /\ epc = "awaitRun"
       /\ runTask = visited[Len(visited)]
       /\ Len(labels) = Len(visited) - 1
  /\ inflight # {} => (rpc = "batch" /\ kind[runTask] = "parallel")
  /\ epc \in {"idle", "loop", "returned", "raised"} =>
       /\ rpc = "none" /\ inflight = {} /\ batch = {}
  /\ epc \in {"loop", "returned"} => Len(labels) = Len(visited)
  /\ (epc \in {"loop", "returned"} /\ Len(visited) > 0 /\ kind[visited[Len(visited)]] = "parallel"
      /\ Len(items) > 0 /\ raisedIn = "none") =>
       Range(settled) = 0..(Len(items) - 1)

\* the base task B runs after the ParallelTask A, all of whose items settled
WitnessC18 ==
  /\ visited = <<"A", "B">> /\ rpc = "exec" /\ runTask = "B"
  /\ Len(items) = MaxItems /\ Range(settled) = 0..(Len(items) - 1) /\ Len(settled) = Len(items)
  /\ maxConcurrency = 2

\* C19: during a ParallelTask run nothing is written to shared while the
\* chunks are processed; post and updateSharedData are invoked only when
\* every item of every chunk has settled; and the outcome of each worker is
\* that of execItem on the item at its own index.
TheoremC19 ==
  /\ rpc = "batch" => heap[sharedArg] = heapAtRun
  /\ inflight # {} => ("post" \notin Range(calls) /\ "updateSharedData" \notin Range(calls))
  /\ (runTask \in Tasks /\ kind[runTask] = "parallel" /\ Len(items) > 0
      /\ (rpc \in {"post", "merge"} \/ "post" \in Range(calls))) =>
       /\ inflight = {}
       /\ Range(settled) = 0..(Len(items) - 1)
       /\ Len(settled) = Len(items)
  /\ \A k \in DOMAIN batchResults:
       /\ batchResults[k].index = k
       /\ IF execItemRaises(at(items, k))
            THEN batchResults[k].data = Val(at(items, k))
            ELSE batchResults[k].result = execItem(at(items, k))

\* the merge of a three-item batch in two chunks
WitnessC19 ==
  /\ rpc = "done" /\ kind[runTask] = "parallel" /\ maxConcurrency = 2 /\ Len(items) = 3
  /\ calls = <<"prepare", "exec", "post", "updateSharedData">>
  /\ heap[sharedArg]["A"] = result /\ heapAtRun["A"] = Undef

\* C20: execute advances the currentTask cursor: after an execute that ran
\* more than one task, getCurrentTask() is the last task that was run.
ClaimC20 ==
  (epc = "returned" /\ Len(visited) > 1) => currentTask = visited[Len(visited)]

\* C21: a new Flow has currentTask = startTask; after any sequence of execute
\* and setCurrentTask calls, reset() makes currentTask equal startTask again;
\* and a reset call changes nothing but the cursor: startTask, the successors
\* of every task and the shared objects are as before (so a second reset
\* changes nothing at all).
TheoremC21 ==
  /\ []((nExec = 0 /\ lastCursorOp = "none") => currentTask = startTask)
  /\ [](lastCursorOp = "reset" => currentTask = startTask)
  /\ [][(lastCursorOp # "reset" /\ lastCursorOp' = "reset") =>
          /\ currentTask' = startTask
          /\ UNCHANGED <<successors, startTask, nConnects, heap, execVars, runVars, parVars>>]_vars

\* reset after an execute that had been started from a cursor moved by
\* setCurrentTask
WitnessC21 ==
  /\ lastCursorOp = "reset" /\ currentTask = startTask
  /\ epc = "returned" /\ Len(visited) > 1 /\ visited[1] # startTask

\* an execute call that is not the first on its flow returns, the last cursor
\* operation before it was reset(), and its shared object has the shape the
\* one of the call before had
SecondExecuteReturns ==
  /\ epc # "returned" /\ epc' = "returned"
  /\ nExec >= 2 /\ lastCursorOp = "reset"
  /\ input[prevShared] = input[sharedArg]

\* C22: for deterministic task logic, execute, then reset(), then execute on
\* a shared object of the same initial shape runs the same sequence of tasks
\* both times.
ClaimC22 == [][SecondExecuteReturns => visited' = prevVisited]_vars

\* C22, amended: the two executes run the same sequence of tasks provided the
\* first of them started at the start task, i.e. the cursor had not been
\* moved by setCurrentTask before it; reset() sends the second execute back to
\* the start task, wherever the first one began.
TheoremC22 ==
  [][SecondExecuteReturns =>
       /\ visited'[1] = startTask
       /\ (prevVisited[1] = startTask) => visited' = prevVisited]_vars

\* two executes from the start task over two objects of the same shape
WitnessC22 ==
  /\ nExec = 2 /\ epc = "returned" /\ lastCursorOp = "reset"
  /\ prevShared # sharedArg /\ input[prevShared] = input[sharedArg]
  /\ Len(visited) = 2 /\ visited = prevVisited /\ visited[1] = startTask

\* C23: connect(next, label) sets the entry successors[label] of the
\* receiver to next (label being "default" when none is given), whatever the
\* entry held; every other entry of the receiver, the successors of every
\* other task and the flow are unchanged; and it returns next.
TheoremC23 ==
  [][nConnects' # nConnects =>
       \E t \in Tasks, l \in ConnectLabels:
         /\ returnedTask' \in Tasks
         /\ successors'[t][l] = returnedTask'
         /\ successors' = [successors EXCEPT ![t][l] = returnedTask']
         /\ UNCHANGED <<startTask, currentTask, heap>>]_vars

\* two connect calls on A under the default label, the second overwriting
\* the first and returning its argument, not the receiver
WitnessC23 ==
  /\ nConnects = 2 /\ returnedTask = "C"
  /\ successors = [t \in Tasks |->
                     IF t = "A" THEN [emptySuccessors EXCEPT !["default"] = "C"]
                     ELSE emptySuccessors]

\* a chainTasks call, its argument and the places of a task in it
ChainStep == chainArg' # chainArg
Distinct(q) == \A i, j \in 1..Len(q): q[i] = q[j] => i = j
LinksOf(q, t) == {i \in 1..(Len(q) - 1) : q[i] = t}

\* C24: chainTasks(t1, ..., tn) sets ti.successors["default"] = t(i+1) for
\* every i < n, leaves the successors of the last task unchanged, and returns
\* a Flow whose start task and current task are t1.
ClaimC24 ==
  [][ChainStep =>
       LET q == chainArg' IN
       /\ \A i \in 1..(Len(q) - 1): successors'[q[i]]["default"] = q[i + 1]
       /\ successors'[q[Len(q)]] = successors[q[Len(q)]]
       /\ startTask' = q[1] /\ currentTask' = q[1]]_vars

\* C24, amended: the statement holds when t1, ..., tn are pairwise distinct.
\* In general the "default" entry of a task that occurs before the last place
\* is the task after its last such occurrence (later connects overwrite
\* earlier ones), its other entries and the successors of every other task are
\* unchanged; so the last task's successors change when it also occurs
\* earlier, as in chainTasks(a, b, a). The Flow returned starts at t1 with
\* its cursor on t1.
TheoremC24 ==
  [][ChainStep =>
       LET q == chainArg' IN
       /\ \A t \in Tasks:
            successors'[t] =
              IF LinksOf(q, t) = {} THEN successors[t]
              ELSE [successors[t] EXCEPT !["default"] = q[Max(LinksOf(q, t)) + 1]]
       /\ Distinct(q) =>
            /\ \A i \in 1..(Len(q) - 1): successors'[q[i]]["default"] = q[i + 1]
            /\ successors'[q[Len(q)]] = successors[q[Len(q)]]
       /\ startTask' = q[1] /\ currentTask' = q[1]
       /\ UNCHANGED heap]_vars

\* a chain of three over a graph in which the last task already had a
\* successor
WitnessC24 ==
  /\ chainArg = <<"A", "B", "C">> /\ startTask = "A" /\ currentTask = "A"
  /\ successors["A"]["default"] = "B" /\ successors["B"]["default"] = "C"
  /\ successors["B"]["error"] = "C" /\ successors["C"]["default"] = "A"

\* C25: execute performs no cycle detection: it returns only when a run
\* returns "end", "error" or a label successors does not map; otherwise it
\* goes on to the successor and runs it, whether or not that task has been run
\* before, so on a cycle of tasks that never return such a label it never
\* returns.
TheoremC25 ==
  /\ epc = "returned" =>
       /\ Len(visited) > 0 /\ Len(labels) = Len(visited)
       /\ \/ labels[Len(labels)] \in {"end", "error"}
          \/ ~inSuccessors(successors[visited[Len(visited)]], labels[Len(labels)])
  /\ (epc = "loop" /\ Len(visited) > 0) =>
       /\ labels[Len(labels)] \notin {"end", "error"}
       /\ inSuccessors(successors[visited[Len(visited)]], labels[Len(labels)])
       /\ (cur \in Tasks /\ Len(visited) < MaxSteps) => ENABLED executeRun

\* on the cycle A -> B -> A the loop has run A a second time and is about to
\* run B again
WitnessC25 ==
  /\ epc = "loop" /\ visited = <<"A", "B", "A">> /\ cur = "B"
  /\ labels = <<"default", "default", "default">>

\* C26: with the default post, a ParallelTask run over a non-empty input
\* returns "default" whatever the number of items that failed, all of them
\* included; only a raising prepare makes such a run return "error"; so a
\* Flow in which the task has a "default" successor goes on to it.
TheoremC26 ==
  /\ (/\ runTask \in Tasks /\ kind[runTask] = "parallel" /\ style[runTask] = "default"
      /\ rpc = "done") =>
       /\ (Len(items) > 0 /\ raisedIn = "none") =>
            (ret = "default" /\ result.totalErrors = Cardinality(Failing))
       /\ ret = "error" => raisedIn = "prepare"
  /\ (/\ chainArg = <<"A", "B">> /\ style["A"] = "default" /\ Len(items) > 0
      /\ Len(labels) >= 1) =>
       /\ labels[1] = "default"
       /\ epc = "returned" => (Len(visited) = 2 /\ visited[2] = "B")

\* every item failed and the flow went on to B
WitnessC26 ==
  /\ chainArg = <<"A", "B">> /\ style["A"] = "default" /\ visited = <<"A", "B">>
  /\ Len(items) = MaxItems /\ Cardinality(Failing) = Len(items)
  /\ labels[1] = "default" /\ heap[sharedArg]["A"].totalErrors = MaxItems

\* C27: the configured timeout has no effect: once an execItem call that
\* never settles has started, it stays pending whatever the timeout, its chunk
\* is never recorded, no item of a later chunk is started, run does not return
\* and the task writes nothing to shared.
TheoremC27 ==
  \A k \in hung:
    k \in Range(started) =>
      /\ k \in inflight /\ k \in batch
      /\ rpc = "batch" /\ epc = "awaitRun" /\ ret = NoLabel
      /\ idx <= k /\ Len(results) <= idx /\ result = Undef
      /\ \A j \in 0..(Len(items) - 1): j >= chunkEnd(idx) => j \notin Range(started)
      /\ "post" \notin Range(calls) /\ "updateSharedData" \notin Range(calls)
      /\ heap[sharedArg] = heapAtRun

\* a timeout is configured, the first item of the first chunk never settles,
\* the other one has settled: nothing more can happen in this run
WitnessC27 ==
  /\ timeout = RobustTimeout /\ hung = {0} /\ maxConcurrency = 2 /\ Len(items) = 3
  /\ inflight = {0} /\ settled = <<1>> /\ started = <<0, 1>>
  /\ ~ENABLED recordBatch /\ ~ENABLED settle(0)

\* the chain validate -> process built by chainTasks(A, B) and nothing else,
\* A's post routing on its exec result, walked from A
ValidateProcess ==
  /\ chainArg = <<"A", "B">> /\ style["A"] = "routed"
  /\ successors["B"]["default"] = NoTask
  /\ Len(visited) >= 1 /\ visited[1] = "A"

\* C28: on the chain validate -> process, where validate's post returns
\* "default" when its exec result is true and "error" otherwise, a valid input
\* is visited as [validate, process] and an invalid one as [validate] only.
TheoremC28 ==
  ValidateProcess =>
    /\ input[sharedArg] = "invalid" =>
         /\ visited = <<"A">>
         /\ Len(labels) >= 1 => (labels = <<"error">> /\ epc = "returned")
    /\ input[sharedArg] = "valid" =>
         /\ visited \in {<<"A">>, <<"A", "B">>}
         /\ epc = "returned" => (visited = <<"A", "B">> /\ labels = <<"default", "default">>)

\* the same flow walked over a valid and then over an invalid input
WitnessC28 ==
  /\ ValidateProcess /\ nExec = 2 /\ epc = "returned"
  /\ input[prevShared] = "valid" /\ prevVisited = <<"A", "B">>
  /\ input[sharedArg] = "invalid" /\ visited = <<"A">>
  /\ heap[sharedArg]["A"] = Bool(FALSE) /\ heap[sharedArg]["B"] = Undef

\* C29: chainTasks(ValidationTask, ProcessingTask) with the default prepare,
\* post and merge, ProcessingTask.exec returning a copy of its input with
\* processed: true, executed on a valid user, returns a shared object whose
\* top-level field processed is true.
ClaimC29 ==
  (/\ chainArg = <<"A", "B">> /\ style["A"] = "default" /\ style["B"] = "default"
   /\ successors["B"]["default"] = NoTask
   /\ epc = "returned" /\ visited = <<"A", "B">> /\ input[sharedArg] = "valid") =>
    heap[returned][ProcessedKey] = Bool(TRUE)

\* C30: an execItem call that returns a falsy value without raising is a
\* success: the value is stored in results at the item's index, no record is
\* added to errors, and totalErrors does not count it.
TheoremC30 ==
  (worker = "fn" /\ result.tag = "parallel") =>
    /\ \A k \in 0..(Len(items) - 1):
         at(items, k) <= 0 =>
           /\ k < Len(result.results) /\ at(result.results, k) = Bool(FALSE)
           /\ \A e \in 1..Len(result.errors): result.errors[e].index # k
    /\ result.errors = <<>> /\ result.totalErrors = 0
    /\ Len(result.results) = Len(items)

\* the input of the createParallelTask test: true, false, true
WitnessC30 ==
  /\ worker = "fn" /\ rpc = "done" /\ ret = "default" /\ items = <<10, -5, 20>>
  /\ result.results = <<Bool(TRUE), Bool(FALSE), Bool(TRUE)>>
  /\ result.totalErrors = 0 /\ heap[sharedArg]["A"] = result

\* the records of errs that carry index k
errorsAt(errs, k) == {e \in 1..Len(errs) : errs[e].index = k}

\* index k holds a recorded success in res: a slot that is no placeholder
successAt(res, k) == k < Len(res) /\ at(res, k) # placeholder

\* each index below n is accounted for exactly once by res and errs
accountedOnce(res, errs, n) ==
  \A k \in 0..(n - 1):
    /\ Cardinality(errorsAt(errs, k)) <= 1
    /\ successAt(res, k) <=> errorsAt(errs, k) = {}

\* C36: with maxConcurrency >= 1, after every completed chunk each input index
\* handled so far is accounted for exactly once, by exactly one record in
\* errors or by a recorded success in results, never both and never neither;
\* in the returned result the successes plus totalErrors equal totalProcessed
\* and no index occurs twice in errors.
TheoremC36 ==
  /\ (rpc = "batch" /\ ~awaiting /\ maxConcurrency >= 1) =>
       /\ accountedOnce(results, errors, IF idx < Len(items) THEN idx ELSE Len(items))
       /\ \A e \in 1..Len(errors): errors[e].index < idx
  /\ (result.tag = "parallel" /\ maxConcurrency >= 1) =>
       /\ accountedOnce(result.results, result.errors, Len(items))
       /\ Cardinality({k \in 0..(Len(items) - 1) : successAt(result.results, k)})
            + result.totalErrors = result.totalProcessed
       /\ \A e1, e2 \in 1..Len(result.errors):
            result.errors[e1].index = result.errors[e2].index => e1 = e2

\* a run of three items in which the middle one succeeded and both ends failed
WitnessC36 ==
  /\ result.tag = "parallel" /\ Len(items) = 3 /\ Failing = {0, 2}
  /\ Len(result.errors) = 2 /\ successAt(result.results, 1)
  /\ result.totalProcessed = 3 /\ result.totalErrors = 2

\* the records of errs are in strictly ascending order of index
ascendingByIndex(errs) ==
  \A e1, e2 \in 1..Len(errs): e1 < e2 => errs[e1].index < errs[e2].index

\* C37: the records in errors are in strictly ascending order of index,
\* whatever order the failing workers settled in: during the run and in the
\* returned result.
TheoremC37 ==
  /\ ascendingByIndex(errors)
  /\ result.tag = "parallel" => ascendingByIndex(result.errors)

\* two failing items of one chunk, the later one settling first
WitnessC37 ==
  /\ result.tag = "parallel" /\ maxConcurrency = 2
  /\ Len(result.errors) = 2
  /\ result.errors[1].index = 0 /\ result.errors[2].index = 1
  /\ \E p, q \in 1..Len(settled): p < q /\ settled[p] = 1 /\ settled[q] = 0

\* the event loop runs every continuation that is ready, and every execItem
\* call settles
FairPar ==
  /\ WF_vars(launchBatch)
  /\ WF_vars(\E k \in 0..MaxItems: settle(k))
  /\ WF_vars(recordBatch)
  /\ WF_vars(processInParallelReturn)

SpecParLive == InitPar /\ [][NextPar]_vars /\ FairPar

\* ceil(n / m) for m >= 1
ceilDiv(n, m) == (n + m - 1) \div m

\* the batch loop has been left with every item handled
batchCompleted ==
  /\ rpc = "post" /\ result.tag = "parallel"
  /\ nChunks = ceilDiv(Len(items), maxConcurrency)
  /\ started = [j \in 1..Len(items) |-> j - 1]

\* C38: if every execItem call eventually settles and maxConcurrency >= 1, a
\* ParallelTask run over N items leaves the batch loop, after exactly
\* ceil(N / maxConcurrency) chunks and with execItem invoked exactly once per
\* input item; no run enters more chunks or starts an item twice on the way.
TheoremC38 ==
  /\ [](/\ nChunks <= ceilDiv(Len(items), maxConcurrency)
        /\ \A p, q \in 1..Len(started): started[p] = started[q] => p = q
        /\ (result.tag = "parallel") =>
             /\ nChunks = ceilDiv(Len(items), maxConcurrency)
             /\ started = [j \in 1..Len(items) |-> j - 1])
  /\ (rpc = "batch") ~> batchCompleted

\* three items in chunks of two: two chunks, three calls
WitnessC38 ==
  /\ batchCompleted /\ Len(items) = 3 /\ maxConcurrency = 2 /\ nChunks = 2
  /\ Len(started) = 3

\* a ParallelTask whose configured maxConcurrency may be zero: the
\* constructor stores the config as given
InitZero ==
  /\ successors = [t \in Tasks |-> emptySuccessors]
  /\ kind = [t \in Tasks |-> IF t = "A" THEN "parallel" ELSE "task"]
  /\ style \in {[t \in Tasks |-> IF t = "A" THEN st ELSE "custom"] : st \in {"custom", "default"}}
  /\ build \in Builds
  /\ maxConcurrency \in 0..MaxConc
  /\ startTask = "A"
  /\ currentTask = "A"
  /\ nConnects = 0
  /\ heap = [s \in SharedIds |-> [k \in Keys |-> Undef]]
  /\ execInit /\ runInit /\ parInit /\ sessInit /\ plainInit

SpecZero == InitZero /\ [][NextPar]_vars

\* C35: with maxConcurrency = 0 and a non-empty prepared sequence the batch
\* loop never makes progress: however many iterations it has made, the run
\* is still inside the loop at index 0 with the next iteration ready to go,
\* run has not returned, execItem has not been invoked, nothing has been
\* recorded and shared is as it was when run began.
TheoremC35 ==
  (maxConcurrency = 0 /\ Len(items) > 0) =>
    /\ rpc = "batch" /\ epc = "awaitRun" /\ raisedIn = "none"
    /\ idx = 0 /\ batch = {} /\ inflight = {}
    /\ started = <<>> /\ settled = <<>> /\ results = <<>> /\ errors = <<>>
    /\ calls = <<"prepare">> /\ result = Undef /\ ret = NoLabel
    /\ heap[sharedArg] = heapAtRun
    /\ ~ENABLED processInParallelReturn
    /\ awaiting => ENABLED recordBatch
    /\ (~awaiting /\ nChunks < MaxChunks) => ENABLED launchBatch

\* the loop has gone round as often as it is followed, over three items
WitnessC35 ==
  /\ maxConcurrency = 0 /\ Len(items) = MaxItems /\ nChunks = MaxChunks /\ ~awaiting
  /\ rpc = "batch" /\ idx = 0 /\ started = <<>>

\* C32: after setCurrentTask(t) the next execute begins by running t rather
\* than startTask, whether or not t is reachable from startTask, and
\* setCurrentTask changes neither startTask nor any successors mapping.
TheoremC32 ==
  [][/\ (lastCursorOp = "set" /\ epc \in {"idle", "returned"} /\ epc' = "loop") =>
          cur' = currentTask
     /\ (lastCursorOp = "set" /\ visited = <<>> /\ visited' # <<>>) =>
          /\ visited' = <<currentTask>> /\ runTask' = currentTask /\ rpc' = "prepare"
     /\ (lastCursorOp' = "set" /\ (lastCursorOp # "set" \/ currentTask' # currentTask)) =>
          /\ startTask' = startTask /\ successors' = successors]_vars

\* execute is running C first, after setCurrentTask(C), on a flow that
\* starts at A and has no edge into C
WitnessC32 ==
  /\ lastCursorOp = "set" /\ currentTask = "C" /\ startTask = "A"
  /\ chainArg = <<"A", "B">>
  /\ \A t \in Tasks: \A l \in ConnectLabels: successors[t][l] # "C"
  /\ visited = <<"C">> /\ runTask = "C" /\ rpc = "prepare"

\* what Flow.execute keeps of its last run: where it stands and what it returns
flowOutcome == <<epc, returned, cur, Len(visited) - Len(labels)>>

WitnessC33Crash ==
  /\ epc = "returned" /\ labels = <<"error">> /\ raisedIn = "post"
  /\ successors[visited[1]]["error"] # NoTask
  /\ heap[returned][visited[1]] = Undef

\* the last hook of the run wrote to shared, and it was updateSharedData
mergeWrote == hookWrites # <<>> /\ hookWrites[Len(hookWrites)] = "updateSharedData"

\* C34: if updateSharedData itself raises, run still does not raise: it
\* returns "error" and the label post produced is discarded; what the merge
\* wrote to shared before raising remains, and nothing else has changed since
\* post returned.
TheoremC34 ==
  /\ rpc # "raised"
  /\ (rpc = "done" /\ raisedIn = "updateSharedData") =>
       /\ ret = "error"
       /\ nextNode \in PostLabels
       /\ calls = <<"prepare", "exec", "post", "updateSharedData">>
       /\ IF mergeWrote
            THEN heap[sharedArg] = [heapAtPhase EXCEPT ![StepsKey] = StepsBy("updateSharedData")]
            ELSE heap[sharedArg] = heapAtPhase

\* post returned "default", the merge wrote to shared and then raised
WitnessC34 ==
  /\ rpc = "done" /\ raisedIn = "updateSharedData" /\ nextNode = "default" /\ ret = "error"
  /\ mergeWrote /\ heap[sharedArg][StepsKey] = StepsBy("updateSharedData")
  /\ heapAtPhase[StepsKey] # StepsBy("updateSharedData")

\* flows over three tasks wired by connect calls, so that a walk which runs
\* no task twice is followed to its end
WalkTasks == {"A", "B", "C"}

NextWalk ==
  \/ \E t \in WalkTasks, n \in WalkTasks, a \in ConnectLabels \cup {NoLabel}: connect(t, n, a)
  \/ execute("s1")
  \/ executeRun
  \/ prepare
  \/ exec
  \/ post
  \/ updateSharedData
  \/ executeStep

\* every run in progress goes on: each hook settles and the loop resumes
FairWalk ==
  /\ WF_vars(executeRun) /\ WF_vars(prepare) /\ WF_vars(exec) /\ WF_vars(post)
  /\ WF_vars(updateSharedData) /\ WF_vars(executeStep)

SpecWalk == Init /\ [][NextWalk]_vars /\ FairWalk

\* the successor graph: an edge for every own entry of a successors mapping
edges == {e \in Tasks \X Tasks : \E l \in DOMAIN successors[e[1]] : successors[e[1]][l] = e[2]}
graphTasks == {startTask} \cup {e[1] : e \in edges} \cup {e[2] : e \in edges}

\* no task reaches itself: the tasks can be ranked so that every edge goes up
Acyclic ==
  \E rank \in [WalkTasks -> 1..Cardinality(WalkTasks)]:
    \A e \in edges: e[1] \in WalkTasks /\ e[2] \in WalkTasks /\ rank[e[1]] < rank[e[2]]

\* C39: on an acyclic successor graph in which every task's run terminates
\* and no hook rewires successors, Flow.execute terminates (it returns, or
\* fails on a successor that is no task), runs no task more than once, and
\* runs at most as many tasks as the graph contains.
TheoremC39 ==
  /\ [](Acyclic => /\ Distinct(visited)
                   /\ Len(visited) <= Cardinality(graphTasks)
                   /\ Range(visited) \subseteq graphTasks)
  /\ (Acyclic /\ epc = "loop") ~> (epc \in {"returned", "raised"})

\* the chain A -> B -> C walked to its end
WitnessC39 ==
  /\ Acyclic /\ Cardinality(edges) = 2 /\ epc = "returned"
  /\ visited = <<"A", "B", "C">> /\ labels[3] = "default"

\* ParallelTask.exec(prepared) = processInParallel(prepared), as a function of
\* its input: the chunks taken in order from index i, each recorded in input order
RECURSIVE processAll(_, _, _, _)
processAll(its, m, i, acc) ==
  IF loopDone(i, Len(its)) THEN makeResult(its, acc.results, acc.errors)
  ELSE LET b == batchIndices(i, m, Len(its))
           br == [k \in b |-> mapper(k, at(its, k))]
       IN processAll(its, m, nextIndex(i, m),
                     forEach(i, i + Cardinality(b) - 1, br, acc))
parallelExec(its) == processAll(its, maxConcurrency, 0, [results |-> <<>>, errors |-> <<>>])

\* the base Task.run as a function of what its hooks do: prepare and the merge
\* raise or not, exec returns r, post raises (NoLabel) or returns a label
taskRun(sh, name, prepareRaises, r, label, mergeRaises) ==
  IF prepareRaises
    THEN [ret |-> runCatch.ret, shared |-> sh, calls |-> <<"prepare">>]
  ELSE IF label = NoLabel
    THEN [ret |-> runCatch.ret, shared |-> sh, calls |-> <<"prepare", "exec", "post">>]
  ELSE IF mergeRaises
    THEN [ret |-> runCatch.ret, shared |-> sh,
          calls |-> <<"prepare", "exec", "post", "updateSharedData">>]
  ELSE [ret |-> label, shared |-> defaultMerge(sh, name, r),
        calls |-> <<"prepare", "exec", "post", "updateSharedData">>]

\* C31: for every non-empty prepared sequence, ParallelTask.run yields the
\* outcome label and the final shared that the base Task.run orchestration
\* (prepare, exec = the batch algorithm, post, merge) yields for the same
\* hooks, with the hooks invoked in the same order, including "error" and no
\* merge when prepare or post raises.
TheoremC31 ==
  (rpc = "done" /\ kind[runTask] = "parallel" /\ (Len(items) > 0 \/ raisedIn = "prepare")) =>
    [ret |-> ret, shared |-> heap[sharedArg], calls |-> calls]
      = taskRun(heapAtRun, runTask, raisedIn = "prepare", parallelExec(items),
                IF raisedIn = "post" THEN NoLabel ELSE nextNode,
                raisedIn = "updateSharedData")

\* three items in chunks of two, the last one failing, post returning "end"
WitnessC31 ==
  /\ rpc = "done" /\ kind[runTask] = "parallel" /\ raisedIn = "none"
  /\ Len(items) = 3 /\ maxConcurrency = 2 /\ Failing = {2}
  /\ ret = "end" /\ heap[sharedArg][runTask] = parallelExec(items)
  /\ result.totalErrors = 1

\* the post hook of a ParallelTask raised: "error", nothing merged
WitnessC31Post ==
  /\ rpc = "done" /\ kind[runTask] = "parallel" /\ raisedIn = "post" /\ Len(items) > 0
  /\ ret = "error" /\ heap[sharedArg] = heapAtRun

\* two execute calls on one Flow over the chain A -> B -> C, whose tasks may
\* return any label or crash; the cursor may be moved before either call
InitOverlap ==
  /\ successors = [t \in Tasks |->
                     IF t = "A" THEN [emptySuccessors EXCEPT !["default"] = "B"]
                     ELSE IF t = "B" THEN [emptySuccessors EXCEPT !["default"] = "C"]
                     ELSE emptySuccessors]
  /\ kind = [t \in Tasks |-> "task"]
  /\ style = [t \in Tasks |-> "custom"]
  /\ build = "packages"
  /\ maxConcurrency = 1
  /\ startTask = "A"
  /\ currentTask = "A"
  /\ nConnects = 0
  /\ heap = [s \in SharedIds |-> [k \in Keys |-> Undef]]
  /\ execInit /\ runInit /\ parInit /\ sessInit /\ plainInit

NextOverlap ==
  \/ \E t \in SessTasks: setCurrentTask(t)
  \/ reset
  \/ \E sh \in SharedIds: execute(sh)
  \/ \E sh \in SharedIds: execute2(sh)
  \/ executeLoop2
  \/ executeRun
  \/ prepare
  \/ exec
  \/ post
  \/ updateSharedData
  \/ executeStep

SpecOverlap == InitOverlap /\ [][NextOverlap]_vars

\* the walk q with labels ls starts at task s and follows, at each step, the
\* successor of its own last task under its own last label
ownPath(q, ls, s) ==
  /\ q # <<>> => q[1] = s
  /\ \A i \in 1..(Len(q) - 1):
       /\ i <= Len(ls)
       /\ q[i + 1] = lookup(successors[q[i]], ls[i])

\* both calls are under way at once
overlapping == epc \in {"loop", "awaitRun"} /\ epc2 = "loop"

\* where a call stands after the walk q with labels ls from task s
cursorAfter(q, ls, s) ==
  IF q = <<>> THEN s
  ELSE IF Len(ls) < Len(q) THEN q[Len(q)]
  ELSE LET nextTask == lookup(successors[q[Len(q)]], ls[Len(ls)]) IN
       IF isTerminal(ls[Len(ls)]) \/ nextTask = NoTask THEN q[Len(q)] ELSE nextTask

\* C40: two execute calls on the same Flow that overlap in time do not
\* interfere through the cursor: each walks its own path, from the flow's
\* cursor task as it was when that call began and along its own labels, its
\* cursor local standing where its own walk has led; a step of one call
\* changes neither the other call's locals nor the flow's cursor.
TheoremC40 ==
  /\ [](/\ epc \in {"loop", "awaitRun"} =>
             /\ ownPath(visited, labels, executeStart(currentTask, startTask))
             /\ cur = cursorAfter(visited, labels, executeStart(currentTask, startTask))
        /\ epc2 # "idle" =>
             /\ ownPath(visited2, labels2, start2)
             /\ cur2 = cursorAfter(visited2, labels2, start2))
  /\ [][/\ call2Vars' # call2Vars => UNCHANGED <<execVars, currentTask, startTask, successors>>
        /\ execVars' # execVars => UNCHANGED <<call2Vars, currentTask, startTask, successors>>]_vars

\* both calls under way on the same shared object: one began at A and has run
\* A and B, the other began at B after setCurrentTask(B) and is running B
WitnessC40 ==
  /\ overlapping /\ sharedArg = sharedArg2
  /\ start2 = "A" /\ visited2 = <<"A", "B">> /\ cur2 = "C"
  /\ currentTask = "B" /\ visited = <<"B">> /\ epc = "awaitRun" /\ cur = "B"
====
